---------------------------- MODULE Spec2Model ----------------------------
(***************************************************************************)
(* diffmatch (src/diffmatch.py), the commit-diff auditor: the git gateway, *)
(* the commit-message parser, the file categorizer, the five heuristic     *)
(* checks and audit_commit, with the check, log and hook commands.         *)
(*                                                                         *)
(* Text is modelled as TLA+ strings, read character by character with Len  *)
(* and SubSeq, so that parsing, lower-casing and pattern matching are      *)
(* computed as the code computes them.                                     *)
(***************************************************************************)
EXTENDS Integers, Sequences, FiniteSets, TLC

VARIABLES
    pc,          \* position of the process: "start" or "done"
    gw,          \* what git answers to each query the run can make
    result,      \* the dict returned by audit_commit
    calls,       \* the git queries audit_commit made, in order
    checks_run,  \* the check functions audit_commit called, in order
    exit_code,   \* the return value of the command
    msg_parsed,  \* the parsed message handed to a check
    diff_stats,  \* the diff statistics handed to a check
    renames,     \* the rename list handed to check_rename_mismatch
    findings,    \* the list a check returned
    filepaths,   \* the paths handed to categorize_files
    categories,  \* the dict categorize_files returned
    cursor,      \* position of the sweep over the direction inputs
    cofired,     \* the sweep met an input on which all four sub-rules fired
    refs,        \* the commits the log command audits, in order
    results,     \* the list of dicts the log command has collected
    counts,      \* pass_count, warn_count and skip_count of the log command
    hook_file,   \* the content of the commit-msg hook file, None without one
    args         \* the arguments of the last hook command

\* the variables of the log command and of the hook command
cmd_vars == <<refs, results, counts, hook_file, args>>

vars == <<pc, gw, result, calls, checks_run, exit_code, msg_parsed,
          diff_stats, renames, findings, filepaths, categories, cursor, cofired,
          refs, results, counts, hook_file, args>>

-----------------------------------------------------------------------------
(* Bounds of the model. *)

MaxFiles == 2        \* numstat lines in a gateway answer
MaxSizeAdded == 52   \* added lines in the size-check inputs
MaxDirLines == 41    \* added and deleted lines in the direction-check inputs
MaxSweepLines == 20  \* added and deleted lines in the direction-check sweep
MaxScopeFiles == 4
MaxRenames == 3
MaxStatLines == 3
MaxLogRefs == 3
MaxCommands == 3
MaxPaths == 2        \* paths handed to categorize_files

-----------------------------------------------------------------------------
(* Python values. *)

\* Python's None for the optional type and scope: no type (letters only) and
\* no scope (no closing parenthesis inside) can be this string.
None == "(None)"

PASS == "pass"
WARN == "warn"
FAIL == "fail"

\* a dict with no key: the value of a variable nothing was stored in yet
Nothing == <<>>

-----------------------------------------------------------------------------
(* Characters and strings. *)

Char(s, i) == SubSeq(s, i, i)

LowerOf ==
    [c \in {"A","B","C","D","E","F","G","H","I","J","K","L","M","N","O","P",
            "Q","R","S","T","U","V","W","X","Y","Z"} |->
        CASE c = "A" -> "a" [] c = "B" -> "b" [] c = "C" -> "c" [] c = "D" -> "d"
          [] c = "E" -> "e" [] c = "F" -> "f" [] c = "G" -> "g" [] c = "H" -> "h"
          [] c = "I" -> "i" [] c = "J" -> "j" [] c = "K" -> "k" [] c = "L" -> "l"
          [] c = "M" -> "m" [] c = "N" -> "n" [] c = "O" -> "o" [] c = "P" -> "p"
          [] c = "Q" -> "q" [] c = "R" -> "r" [] c = "S" -> "s" [] c = "T" -> "t"
          [] c = "U" -> "u" [] c = "V" -> "v" [] c = "W" -> "w" [] c = "X" -> "x"
          [] c = "Y" -> "y" [] c = "Z" -> "z"]

LowerLetters ==
    {"a","b","c","d","e","f","g","h","i","j","k","l","m","n","o","p","q","r",
     "s","t","u","v","w","x","y","z"}

Digits == {"0","1","2","3","4","5","6","7","8","9"}

IsLetter(c) == c \in LowerLetters \/ c \in DOMAIN LowerOf

\* \w of the regular expressions
IsWordChar(c) == IsLetter(c) \/ c \in Digits \/ c = "_"

\* \s of the regular expressions, and what str.strip() removes
IsSpace(c) == c \in {" ", "\t", "\n", "\r", "\f"}

\* the line boundaries of str.splitlines()
IsLineEnd(c) == c \in {"\n", "\r", "\f"}

RECURSIVE lower(_)
lower(s) ==
    IF s = "" THEN ""
    ELSE LET c == Char(s, 1)
         IN  (IF c \in DOMAIN LowerOf THEN LowerOf[c] ELSE c)
                 \o lower(SubSeq(s, 2, Len(s)))

\* sub in s
Contains(s, sub) ==
    \E i \in 1..(Len(s) - Len(sub) + 1) : SubSeq(s, i, i + Len(sub) - 1) = sub

\* s.endswith(sub)
EndsWith(s, sub) ==
    /\ Len(sub) <= Len(s)
    /\ SubSeq(s, Len(s) - Len(sub) + 1, Len(s)) = sub

\* number of leading characters of s from position i on that satisfy IsSpace
RECURSIVE SpaceRun(_, _)
SpaceRun(s, i) ==
    IF i <= Len(s) /\ IsSpace(Char(s, i)) THEN 1 + SpaceRun(s, i + 1) ELSE 0

RECURSIVE SpaceRunBack(_, _)
SpaceRunBack(s, i) ==
    IF i >= 1 /\ IsSpace(Char(s, i)) THEN 1 + SpaceRunBack(s, i - 1) ELSE 0

\* str.strip()
strip(s) ==
    LET a == SpaceRun(s, 1)
    IN  IF a = Len(s) THEN ""
        ELSE SubSeq(s, a + 1, Len(s) - SpaceRunBack(s, Len(s)))

\* str.split(sep) for a one-character separator
RECURSIVE split(_, _)
split(s, sep) ==
    IF \E i \in 1..Len(s) : Char(s, i) = sep
    THEN LET i == CHOOSE k \in 1..Len(s) :
                     /\ Char(s, k) = sep
                     /\ \A j \in 1..(k - 1) : Char(s, j) # sep
         IN  <<SubSeq(s, 1, i - 1)>> \o split(SubSeq(s, i + 1, Len(s)), sep)
    ELSE <<s>>

\* str.splitlines(): "\r\n" is one boundary, and a final boundary opens no
\* further line
RECURSIVE splitlines(_)
splitlines(s) ==
    IF s = "" THEN <<>>
    ELSE IF \E i \in 1..Len(s) : IsLineEnd(Char(s, i))
    THEN LET i == CHOOSE k \in 1..Len(s) :
                     /\ IsLineEnd(Char(s, k))
                     /\ \A j \in 1..(k - 1) : ~IsLineEnd(Char(s, j))
             n == IF Char(s, i) = "\r" /\ i < Len(s) /\ Char(s, i + 1) = "\n"
                  THEN i + 1 ELSE i
         IN  <<SubSeq(s, 1, i - 1)>> \o splitlines(SubSeq(s, n + 1, Len(s)))
    ELSE <<s>>

\* str.split() with no argument: the whitespace-separated tokens
RECURSIVE tokens(_)
tokens(s) ==
    LET a == SpaceRun(s, 1)
    IN  IF a = Len(s) THEN <<>>
        ELSE LET t == SubSeq(s, a + 1, Len(s))
                 e == IF \E i \in 1..Len(t) : IsSpace(Char(t, i))
                      THEN (CHOOSE k \in 1..Len(t) :
                               /\ IsSpace(Char(t, k))
                               /\ \A j \in 1..(k - 1) : ~IsSpace(Char(t, j))) - 1
                      ELSE Len(t)
             IN  <<SubSeq(t, 1, e)>> \o tokens(SubSeq(t, e + 1, Len(t)))

DigitValue(c) ==
    CASE c = "0" -> 0 [] c = "1" -> 1 [] c = "2" -> 2 [] c = "3" -> 3
      [] c = "4" -> 4 [] c = "5" -> 5 [] c = "6" -> 6 [] c = "7" -> 7
      [] c = "8" -> 8 [] c = "9" -> 9

\* int(s) for a string of decimal digits, as git prints line counts
RECURSIVE int(_)
int(s) ==
    IF Len(s) = 1 THEN DigitValue(s)
    ELSE 10 * int(SubSeq(s, 1, Len(s) - 1)) + DigitValue(Char(s, Len(s)))

RECURSIVE SumSeq(_)
SumSeq(q) == IF q = <<>> THEN 0 ELSE Head(q) + SumSeq(Tail(q))

RECURSIVE Flatten(_)
Flatten(q) == IF q = <<>> THEN <<>> ELSE Head(q) \o Flatten(Tail(q))

-----------------------------------------------------------------------------
(* Configuration tables. *)

\* ACTION_WORDS: the expectations each word carries
ACTION_WORDS ==
    [w \in {"add", "create", "remove", "delete", "rename", "move", "fix",
            "update", "typo", "whitespace", "comment", "minor", "small", "tiny"} |->
        CASE w = "add"        -> [expects_additions |-> TRUE, min_added |-> 5]
          [] w = "create"     -> [expects_additions |-> TRUE, expects_new_files |-> TRUE]
          [] w = "remove"     -> [expects_deletions |-> TRUE, min_deleted |-> 3]
          [] w = "delete"     -> [expects_deletions |-> TRUE, min_deleted |-> 3]
          [] w = "rename"     -> [expects_renames |-> TRUE]
          [] w = "move"       -> [expects_renames |-> TRUE]
          [] w = "fix"        -> [expects_modifications |-> TRUE]
          [] w = "update"     -> [expects_modifications |-> TRUE]
          [] w = "typo"       -> [max_changed |-> 20]
          [] w = "whitespace" -> [max_changed |-> 50, expects_no_logic_change |-> TRUE]
          [] w = "comment"    -> [max_changed |-> 30]
          [] w = "minor"      -> [max_changed |-> 30]
          [] w = "small"      -> [max_changed |-> 30]
          [] w = "tiny"       -> [max_changed |-> 15]]

\* One regular expression of FILE_CATEGORIES: the literals it stands for
\* ("ya?ml" and "styles?" stand for two each) and whether it ends in "$".
Pat(lits, anchored) == [lits |-> lits, end |-> anchored]

\* FILE_CATEGORIES, in the order the dict is written and iterated
FILE_CATEGORIES == <<
    [category |-> "test",
     patterns |-> <<Pat({"test"}, FALSE), Pat({"spec"}, FALSE),
                    Pat({"__tests__"}, FALSE), Pat({"_test."}, FALSE),
                    Pat({".test."}, FALSE), Pat({".spec."}, FALSE)>>],
    [category |-> "docs",
     patterns |-> <<Pat({".md"}, TRUE), Pat({".rst"}, TRUE), Pat({".txt"}, TRUE),
                    Pat({"README"}, FALSE), Pat({"CHANGELOG"}, FALSE),
                    Pat({"LICENSE"}, FALSE), Pat({"docs/"}, FALSE)>>],
    [category |-> "config",
     patterns |-> <<Pat({".json"}, TRUE), Pat({".yml", ".yaml"}, TRUE),
                    Pat({".toml"}, TRUE), Pat({".ini"}, TRUE), Pat({".cfg"}, TRUE),
                    Pat({".env"}, FALSE), Pat({".config"}, FALSE)>>],
    [category |-> "ci",
     patterns |-> <<Pat({".github/"}, FALSE), Pat({".gitlab-ci"}, FALSE),
                    Pat({"Jenkinsfile"}, FALSE), Pat({".circleci"}, FALSE),
                    Pat({".travis"}, FALSE)>>],
    [category |-> "style",
     patterns |-> <<Pat({".css"}, TRUE), Pat({".scss"}, TRUE), Pat({".less"}, TRUE),
                    Pat({".styled."}, FALSE), Pat({"style/", "styles/"}, FALSE)>>],
    [category |-> "build",
     patterns |-> <<Pat({"Makefile"}, FALSE), Pat({"Dockerfile"}, FALSE),
                    Pat({"docker-compose"}, FALSE), Pat({"package.json"}, TRUE),
                    Pat({"Cargo.toml"}, TRUE)>>] >>

-----------------------------------------------------------------------------
(* Git interface. *)

\* What the git process does for one query: it ends with status 0 ("ok")
\* or another status ("error"), or it runs into the 30 s timeout.
Answer(status, stdout) == [status |-> status, stdout |-> stdout]

\* git that does not look at the exit status
git_ignoring_status(answer) ==
    IF answer.status = "timeout"
    THEN [none |-> TRUE, text |-> ""]
    ELSE [none |-> FALSE, text |-> answer.stdout]

\* git(*args): stdout, or None when the status is not 0 or the call timed
\* out.  The value is a record because None and "" are told apart.
git(answer) ==
    IF answer.status = "ok"
    THEN [none |-> FALSE, text |-> answer.stdout]
    ELSE [none |-> TRUE, text |-> ""]

\* "not out" for a value returned by git
Falsy(out) == out.none \/ out.text = ""

\* out.strip() if out else None, as a record like the one git returns
stripped_or_none(out) ==
    IF Falsy(out) THEN [none |-> TRUE, text |-> ""]
    ELSE [none |-> FALSE, text |-> strip(out.text)]

get_commit_message(g) == stripped_or_none(git(g.message))

get_commit_subject(g) == stripped_or_none(git(g.subject))

\* is_merge_commit counting one parent too many
is_merge_commit_off_by_one(g) ==
    LET out == git(g.parents)
    IN  IF Falsy(out) THEN FALSE ELSE Len(tokens(strip(out.text))) > 2

is_merge_commit(g) ==
    LET out == git(g.parents)
    IN  IF Falsy(out) THEN FALSE ELSE Len(tokens(strip(out.text))) > 1

\* numstat_entry taking the first three fields of a line that has more
numstat_entry_three_or_more(line) ==
    LET entry(added_str, deleted_str, filepath, is_binary) ==
            [path    |-> filepath,
             added   |-> IF is_binary THEN 0 ELSE int(added_str),
             deleted |-> IF is_binary THEN 0 ELSE int(deleted_str),
             binary  |-> is_binary]
        of_parts(parts) ==
            IF Len(parts) < 3 THEN <<>>
            ELSE <<entry(parts[1], parts[2], parts[3],
                         parts[1] = "-" \/ parts[2] = "-")>>
    IN  of_parts(split(line, "\t"))

\* the dict of one numstat line, or <<>> for a line that is skipped
numstat_entry(line) ==
    LET entry(added_str, deleted_str, filepath, is_binary) ==
            [path    |-> filepath,
             added   |-> IF is_binary THEN 0 ELSE int(added_str),
             deleted |-> IF is_binary THEN 0 ELSE int(deleted_str),
             binary  |-> is_binary]
        of_parts(parts) ==
            IF Len(parts) # 3 THEN <<>>
            ELSE <<entry(parts[1], parts[2], parts[3],
                         parts[1] = "-" \/ parts[2] = "-")>>
    IN  of_parts(split(line, "\t"))

\* the git queries get_diff_stats makes
diff_stats_calls(g) ==
    IF git(g.numstat).none THEN <<"numstat", "numstat_root">> ELSE <<"numstat">>

\* get_diff_stats that does not fall back to the root form
get_diff_stats_without_fallback(g) ==
    LET totals(files) ==
            [files         |-> files,
             total_added   |-> SumSeq([i \in 1..Len(files) |-> files[i].added]),
             total_deleted |-> SumSeq([i \in 1..Len(files) |-> files[i].deleted])]
        of_lines(lines) ==
            totals(Flatten([i \in 1..Len(lines) |-> numstat_entry(lines[i])]))
        of_out(out) ==
            IF Falsy(out)
            THEN [files |-> <<>>, total_added |-> 0, total_deleted |-> 0]
            ELSE of_lines(splitlines(strip(out.text)))
    IN  of_out(git(g.numstat))

get_diff_stats(g) ==
    LET totals(files) ==
            [files         |-> files,
             total_added   |-> SumSeq([i \in 1..Len(files) |-> files[i].added]),
             total_deleted |-> SumSeq([i \in 1..Len(files) |-> files[i].deleted])]
        of_lines(lines) ==
            totals(Flatten([i \in 1..Len(lines) |-> numstat_entry(lines[i])]))
        of_out(out) ==
            IF Falsy(out)
            THEN [files |-> <<>>, total_added |-> 0, total_deleted |-> 0]
            ELSE of_lines(splitlines(strip(out.text)))
        of_first(first) ==
            of_out(IF first.none THEN git(g.numstat_root) ELSE first)
    IN  of_first(git(g.numstat))

\* the git queries get_diff_renames makes
diff_renames_calls(g) ==
    IF git(g.names).none THEN <<"names", "names_root">> ELSE <<"names">>

rename_entry(line) ==
    LET of_parts(parts) ==
            IF Len(parts[1]) >= 1 /\ Char(parts[1], 1) = "R"
            THEN <<[from |-> parts[2], to |-> IF Len(parts) > 2 THEN parts[3] ELSE ""]>>
            ELSE <<>>
    IN  of_parts(split(line, "\t"))

get_diff_renames(g) ==
    LET of_lines(lines) == Flatten([i \in 1..Len(lines) |-> rename_entry(lines[i])])
        of_out(out) ==
            IF Falsy(out) THEN <<>> ELSE of_lines(splitlines(strip(out.text)))
        of_first(first) ==
            of_out(IF first.none THEN git(g.names_root) ELSE first)
    IN  of_first(git(g.names))

-----------------------------------------------------------------------------
(* Commit message parsing. *)

\* number of letters s starts with, from position i on
RECURSIVE LetterRun(_, _)
LetterRun(s, i) ==
    IF i <= Len(s) /\ IsLetter(Char(s, i)) THEN 1 + LetterRun(s, i + 1) ELSE 0

\* CONVENTIONAL_RE.match(subject), with re.IGNORECASE:
\*   ^([a-z]+)(?:\(([^)]+)\))?(!)?:\s*(.+)$
\* The type is the whole run of letters, since what follows it is no letter.
\* A "(" must open a non-empty scope closed by the first ")".  After the
\* colon \s* takes the white space, giving one character back when nothing
\* else is left for the description.
CONVENTIONAL_RE(subject) ==
    LET no_match ==
            [matched |-> FALSE, type |-> None, scope |-> None,
             breaking |-> FALSE, description |-> ""]
        \* what (.+)$ takes of rest, the text after the colon, whose first k
        \* characters are white space
        description(rest, k) ==
            IF k < Len(rest) THEN SubSeq(rest, k + 1, Len(rest))
            ELSE Char(rest, Len(rest))
        \* n letters of type, a scope closed at q if scoped, "!" if bang, and
        \* then position p3, where the colon must be
        at_colon(n, scoped, q, bang, p3) ==
            IF /\ n >= 1
               /\ p3 <= Len(subject) /\ Char(subject, p3) = ":"
               /\ SubSeq(subject, p3 + 1, Len(subject)) # ""
            THEN [matched     |-> TRUE,
                  type        |-> SubSeq(subject, 1, n),
                  scope       |-> IF scoped THEN SubSeq(subject, n + 2, q - 1) ELSE None,
                  breaking    |-> bang,
                  description |->
                      description(SubSeq(subject, p3 + 1, Len(subject)),
                                  SpaceRun(SubSeq(subject, p3 + 1, Len(subject)), 1))]
            ELSE no_match
        at_bang(n, scoped, q, p2) ==
            IF p2 <= Len(subject) /\ Char(subject, p2) = "!"
            THEN at_colon(n, scoped, q, TRUE, p2 + 1)
            ELSE at_colon(n, scoped, q, FALSE, p2)
        \* q is the first ")" after a "(" at position n + 1, or 0
        at_scope(n, q) ==
            IF q > n + 2 THEN at_bang(n, TRUE, q, q + 1) ELSE at_bang(n, FALSE, q, n + 1)
        first_close(p, closes) ==
            IF p <= Len(subject) /\ Char(subject, p) = "(" /\ closes # {}
            THEN CHOOSE k \in closes : \A j \in closes : k <= j
            ELSE 0
        at_type(n) ==
            at_scope(n, first_close(n + 1,
                         {k \in (n + 2)..Len(subject) : Char(subject, k) = ")"}))
    IN  at_type(LetterRun(subject, 1))

\* "\n".join(lines)
RECURSIVE join_lines(_)
join_lines(lines) ==
    IF lines = <<>> THEN ""
    ELSE IF Len(lines) = 1 THEN lines[1]
    ELSE lines[1] \o "\n" \o join_lines(Tail(lines))

parse_commit_message(message) ==
    LET parsed(subject, body, match) ==
            IF match.matched
            THEN [subject         |-> subject,
                  body            |-> body,
                  type            |-> lower(match.type),
                  scope           |-> match.scope,
                  breaking        |-> match.breaking,
                  description     |-> match.description,
                  is_conventional |-> TRUE]
            ELSE [subject         |-> subject,
                  body            |-> body,
                  type            |-> None,
                  scope           |-> None,
                  breaking        |-> FALSE,
                  description     |-> subject,
                  is_conventional |-> FALSE]
        of_subject(subject, body) == parsed(subject, body, CONVENTIONAL_RE(subject))
        of_lines(lines) ==
            of_subject(IF lines # <<>> THEN lines[1] ELSE "",
                       IF Len(lines) > 2 THEN join_lines(SubSeq(lines, 3, Len(lines)))
                       ELSE "")
    IN  of_lines(splitlines(strip(message)))

\* re.search(r"\b" + word + r"\b", text): word starts and ends with a \w
\* character, so \b asks for a non-\w neighbour or the end of the text.
re_search_word(word, text) ==
    \E i \in 1..(Len(text) - Len(word) + 1) :
        /\ SubSeq(text, i, i + Len(word) - 1) = word
        /\ i = 1 \/ ~IsWordChar(Char(text, i - 1))
        /\ i + Len(word) - 1 = Len(text) \/ ~IsWordChar(Char(text, i + Len(word)))

\* the keys of the dict extract_action_words returns; the value of key w is
\* ACTION_WORDS[w]
extract_action_words(text) ==
    LET text_lower == lower(text)
    IN  {word \in DOMAIN ACTION_WORDS : re_search_word(word, text_lower)}

-----------------------------------------------------------------------------
(* File categorization. *)

\* re.search(pattern, fp, re.IGNORECASE), given fp in lower case: ignoring
\* case is comparing the lower-cased path with the lower-cased literal
re_search(pattern, fp_lower) ==
    \E lit \in pattern.lits :
        IF pattern.end THEN EndsWith(fp_lower, lower(lit))
                       ELSE Contains(fp_lower, lower(lit))

category_matches(entry, fp_lower) ==
    \E i \in 1..Len(entry.patterns) : re_search(entry.patterns[i], fp_lower)

\* category_of taking the last matching entry instead of the first
category_of_last_match(fp) ==
    LET fp_lower == lower(fp)
        hits == {i \in 1..Len(FILE_CATEGORIES) :
                    category_matches(FILE_CATEGORIES[i], fp_lower)}
    IN  IF hits = {} THEN "code"
        ELSE FILE_CATEGORIES[CHOOSE i \in hits : \A j \in hits : i >= j].category

\* the category of the first entry of FILE_CATEGORIES with a matching
\* pattern, "code" when there is none
category_of(fp) ==
    LET fp_lower == lower(fp)
        hits == {i \in 1..Len(FILE_CATEGORIES) :
                    category_matches(FILE_CATEGORIES[i], fp_lower)}
    IN  IF hits = {} THEN "code"
        ELSE FILE_CATEGORIES[CHOOSE i \in hits : \A j \in hits : i <= j].category

\* d.setdefault(key, []).append(fp) on a dict kept as the sequence of its
\* items in insertion order
setdefault_append(d, key, fp) ==
    IF \E i \in 1..Len(d) : d[i].key = key
    THEN [i \in 1..Len(d) |->
            IF d[i].key = key
            THEN [key |-> key, value |-> Append(d[i].value, fp)]
            ELSE d[i]]
    ELSE Append(d, [key |-> key, value |-> <<fp>>])

RECURSIVE categorize_files(_)
categorize_files(fps) ==
    IF fps = <<>> THEN <<>>
    ELSE LET fp == fps[Len(fps)]
         IN  setdefault_append(categorize_files(SubSeq(fps, 1, Len(fps) - 1)),
                               category_of(fp), fp)

\* key in d
HasKey(d, key) == \E i \in 1..Len(d) : d[i].key = key

\* d.get(key, [])
GetList(d, key) ==
    IF HasKey(d, key) THEN d[CHOOSE i \in 1..Len(d) : d[i].key = key].value ELSE <<>>

-----------------------------------------------------------------------------
(* Heuristic checks. *)

\* A finding.  Its message is kept as the sentence it is an instance of,
\* with the word, the numbers and the paths the f-string embeds.
Finding(severity, check, text, word, nums, paths) ==
    [severity |-> severity,
     check    |-> check,
     message  |-> [text |-> text, word |-> word, nums |-> nums, paths |-> paths]]

\* actions[word].get("max_changed", 30)
max_changed_of(word) ==
    IF "max_changed" \in DOMAIN ACTION_WORDS[word]
    THEN ACTION_WORDS[word].max_changed
    ELSE 30

\* the words of the "small-word" loop, in its iteration order
SMALL_WORDS == <<"typo", "minor", "small", "tiny", "whitespace", "comment">>

\* small_word_findings warning at the threshold already
small_word_findings_at_threshold(word, actions, total_changed, num_files) ==
    IF word \in actions /\ total_changed >= max_changed_of(word)
    THEN <<Finding(WARN, "size_mismatch", "says word but diff is large", word,
                   <<total_changed, num_files, max_changed_of(word)>>, <<>>)>>
    ELSE <<>>

\* one pass of the small-word loop
small_word_findings(word, actions, total_changed, num_files) ==
    IF word \in actions /\ total_changed > max_changed_of(word)
    THEN <<Finding(WARN, "size_mismatch", "says word but diff is large", word,
                   <<total_changed, num_files, max_changed_of(word)>>, <<>>)>>
    ELSE <<>>

\* the "large diff with no-context message" rule
large_diff_findings(msg, total_changed, num_files) ==
    IF total_changed > 200 /\ Len(tokens(msg.description)) < 4
    THEN <<Finding(WARN, "size_mismatch", "large diff with very short message",
                   msg.subject, <<total_changed, num_files>>, <<>>)>>
    ELSE <<>>

check_size_mismatch(msg, diff) ==
    LET total_changed == diff.total_added + diff.total_deleted
        num_files     == Len(diff.files)
        actions       == extract_action_words(msg.description)
    IN  Flatten([i \in 1..Len(SMALL_WORDS) |->
                    small_word_findings(SMALL_WORDS[i], actions, total_changed, num_files)])
        \o large_diff_findings(msg, total_changed, num_files)

\* part / total > tenths / 10, the comparison of a ratio with 0.7 or 0.8.
\* The code divides in floating point; for line counts far below 2^53 the
\* rounded quotient lies on the same side of the rounded literal as the exact
\* quotient of the exact one, and equals it when they are equal.
ratio_above(part, total, tenths) == 10 * part > tenths * total

\* "add" or "create" but mostly deletions
add_word_findings(word, actions, added, deleted) ==
    IF word \in actions /\ ratio_above(deleted, added + deleted, 7) /\ deleted > 10
    THEN <<Finding(WARN, "direction_mismatch", "says word but mostly deletions",
                   word, <<added, deleted>>, <<>>)>>
    ELSE <<>>

\* remove_word_findings testing the deletions, as the add rule does
remove_word_findings_deletions(word, actions, added, deleted) ==
    IF word \in actions /\ ratio_above(deleted, added + deleted, 7) /\ deleted > 10
    THEN <<Finding(WARN, "direction_mismatch", "says word but mostly additions",
                   word, <<added, deleted>>, <<>>)>>
    ELSE <<>>

\* "remove" or "delete" but mostly additions
remove_word_findings(word, actions, added, deleted) ==
    IF word \in actions /\ ratio_above(added, added + deleted, 7) /\ added > 10
    THEN <<Finding(WARN, "direction_mismatch", "says word but mostly additions",
                   word, <<added, deleted>>, <<>>)>>
    ELSE <<>>

\* feat_findings with the ratio of the word rules, 0.7
feat_findings_word_ratio(msg, added, deleted) ==
    IF msg.type = "feat" /\ added + deleted > 10 /\ ratio_above(deleted, added + deleted, 7)
    THEN <<Finding(WARN, "direction_mismatch", "type is feat but mostly deletions",
                   "feat", <<added, deleted>>, <<>>)>>
    ELSE <<>>

\* conventional "feat:" should have meaningful additions
feat_findings(msg, added, deleted) ==
    IF msg.type = "feat" /\ added + deleted > 10 /\ ratio_above(deleted, added + deleted, 8)
    THEN <<Finding(WARN, "direction_mismatch", "type is feat but mostly deletions",
                   "feat", <<added, deleted>>, <<>>)>>
    ELSE <<>>

\* conventional "revert" should mostly delete
revert_findings(msg, added, deleted) ==
    IF msg.type = "revert" /\ added + deleted > 10 /\ ratio_above(added, added + deleted, 8)
    THEN <<Finding(WARN, "direction_mismatch", "type is revert but mostly additions",
                   "revert", <<added, deleted>>, <<>>)>>
    ELSE <<>>

check_direction_mismatch(msg, diff) ==
    LET added   == diff.total_added
        deleted == diff.total_deleted
        total   == added + deleted
        actions == extract_action_words(msg.description)
    IN  IF total = 0 THEN <<>>
        ELSE add_word_findings("add", actions, added, deleted)
             \o add_word_findings("create", actions, added, deleted)
             \o remove_word_findings("remove", actions, added, deleted)
             \o remove_word_findings("delete", actions, added, deleted)
             \o feat_findings(msg, added, deleted)
             \o revert_findings(msg, added, deleted)

\* [f["path"] for f in diff_stats["files"]]
paths_of(diff) == [i \in 1..Len(diff.files) |-> diff.files[i].path]

\* [f for cat, files in file_categories.items() if cat != skip for f in files]
files_outside(file_categories, skip) ==
    Flatten([i \in 1..Len(file_categories) |->
                IF file_categories[i].key # skip THEN file_categories[i].value ELSE <<>>])

\* files[:3]
first3(files) == SubSeq(files, 1, IF Len(files) < 3 THEN Len(files) ELSE 3)

\* scope_findings without the test that a file changed
scope_findings_any_diff(msg, fps) ==
    IF msg.scope # None /\ msg.scope # ""
    THEN LET scope == lower(msg.scope)
             scope_in_paths == \E i \in 1..Len(fps) : Contains(lower(fps[i]), scope)
         IN  IF ~scope_in_paths
             THEN <<Finding(WARN, "scope_mismatch", "scope is in no changed path",
                            msg.scope, <<Len(fps)>>, <<>>)>>
             ELSE <<>>
    ELSE <<>>

\* scope_findings comparing the scope and the paths as they are written
scope_findings_case_sensitive(msg, fps) ==
    IF msg.scope # None /\ msg.scope # ""
    THEN IF ~(\E i \in 1..Len(fps) : Contains(fps[i], msg.scope)) /\ Len(fps) > 0
         THEN <<Finding(WARN, "scope_mismatch", "scope is in no changed path",
                        msg.scope, <<Len(fps)>>, <<>>)>>
         ELSE <<>>
    ELSE <<>>

\* conventional commit scope against the changed paths
scope_findings(msg, fps) ==
    IF msg.scope # None /\ msg.scope # ""
    THEN LET scope == lower(msg.scope)
             scope_in_paths == \E i \in 1..Len(fps) : Contains(lower(fps[i]), scope)
         IN  IF ~scope_in_paths /\ Len(fps) > 0
             THEN <<Finding(WARN, "scope_mismatch", "scope is in no changed path",
                            msg.scope, <<Len(fps)>>, <<>>)>>
             ELSE <<>>
    ELSE <<>>

docs_type_findings(msg, file_categories) ==
    IF msg.type = "docs" /\ ~HasKey(file_categories, "docs")
    THEN LET non_doc_files == files_outside(file_categories, "docs")
         IN  IF non_doc_files # <<>>
             THEN <<Finding(WARN, "scope_mismatch", "type is docs but non-documentation changed",
                            IF Len(non_doc_files) > 3 THEN "..." ELSE "",
                            <<>>, first3(non_doc_files))>>
             ELSE <<>>
    ELSE <<>>

test_type_findings(msg, file_categories) ==
    IF msg.type = "test"
    THEN LET test_files == GetList(file_categories, "test")
             non_test   == files_outside(file_categories, "test")
         IN  IF test_files = <<>> /\ non_test # <<>>
             THEN <<Finding(WARN, "scope_mismatch", "type is test but no test files changed",
                            IF Len(non_test) > 3 THEN "..." ELSE "",
                            <<>>, first3(non_test))>>
             ELSE <<>>
    ELSE <<>>

\* "update README" but many files changed
readme_findings(msg, fps) ==
    IF Contains(lower(msg.description), "readme") /\ Len(fps) > 3
    THEN LET readme_files == SelectSeq(fps, LAMBDA f : Contains(lower(f), "readme"))
         IN  IF Len(readme_files) < Len(fps)
             THEN <<Finding(WARN, "scope_mismatch", "mentions README but other files changed",
                            "", <<Len(fps)>>, <<>>)>>
             ELSE <<>>
    ELSE <<>>

check_scope_mismatch(msg, diff) ==
    LET fps == paths_of(diff)
        file_categories == categorize_files(fps)
    IN  scope_findings(msg, fps)
        \o docs_type_findings(msg, file_categories)
        \o test_type_findings(msg, file_categories)
        \o readme_findings(msg, fps)

\* check_rename_mismatch looking for "rename" and "move" anywhere in the
\* description, inside longer words too
check_rename_mismatch_substring(msg, diff, rens) ==
    LET found(said) ==
            (IF said /\ rens = <<>>
             THEN <<Finding(WARN, "rename_mismatch", "implies renaming but none detected",
                            "", <<>>, <<>>)>>
             ELSE <<>>)
            \o
            (IF rens # <<>> /\ ~said
             THEN <<Finding(WARN, "rename_mismatch", "renames not mentioned",
                            IF Len(rens) > 3 THEN "..." ELSE "",
                            <<Len(rens)>>,
                            [i \in 1..Len(first3(rens)) |->
                                rens[i].from \o " -> " \o rens[i].to])>>
             ELSE <<>>)
    IN  found(Contains(lower(msg.description), "rename")
                \/ Contains(lower(msg.description), "move"))

check_rename_mismatch(msg, diff, rens) ==
    LET actions == extract_action_words(msg.description)
        said    == "rename" \in actions \/ "move" \in actions
    IN  (IF said /\ rens = <<>>
         THEN <<Finding(WARN, "rename_mismatch", "implies renaming but none detected",
                        "", <<>>, <<>>)>>
         ELSE <<>>)
        \o
        (IF rens # <<>> /\ ~said
         THEN <<Finding(WARN, "rename_mismatch", "renames not mentioned",
                        IF Len(rens) > 3 THEN "..." ELSE "",
                        <<Len(rens)>>,
                        [i \in 1..Len(first3(rens)) |-> rens[i].from \o " -> " \o rens[i].to])>>
         ELSE <<>>)

\* check_empty_diff reporting the empty diff as a failure
check_empty_diff_fail(msg, diff) ==
    IF diff.files = <<>>
    THEN <<Finding(FAIL, "empty_diff", "no file changes", "", <<>>, <<>>)>>
    ELSE <<>>

check_empty_diff(msg, diff) ==
    IF diff.files = <<>>
    THEN <<Finding(WARN, "empty_diff", "no file changes", "", <<>>, <<>>)>>
    ELSE <<>>

-----------------------------------------------------------------------------
(* Audit engine. *)

\* ALL_CHECKS with the rename check registered before the scope check
ALL_CHECKS_reordered ==
    <<"check_size_mismatch", "check_direction_mismatch",
      "check_rename_mismatch", "check_scope_mismatch", "check_empty_diff">>

ALL_CHECKS == <<"check_size_mismatch", "check_direction_mismatch",
                "check_scope_mismatch", "check_rename_mismatch", "check_empty_diff">>

\* one pass of the loop over ALL_CHECKS: only check_rename_mismatch is
\* handed the renames
call_check(check_fn, msg, diff, rens) ==
    CASE check_fn = "check_size_mismatch"      -> check_size_mismatch(msg, diff)
      [] check_fn = "check_direction_mismatch" -> check_direction_mismatch(msg, diff)
      [] check_fn = "check_scope_mismatch"     -> check_scope_mismatch(msg, diff)
      [] check_fn = "check_rename_mismatch"    -> check_rename_mismatch(msg, diff, rens)
      [] check_fn = "check_empty_diff"         -> check_empty_diff(msg, diff)

\* the loop over ALL_CHECKS: the findings it collects and the checks it called
run_checks(msg, diff, rens) ==
    [findings |-> Flatten([i \in 1..Len(ALL_CHECKS) |->
                              call_check(ALL_CHECKS[i], msg, diff, rens)]),
     called   |-> ALL_CHECKS]

\* verdict_of with a single finding taken for no finding
verdict_of_needs_two(fs) ==
    IF \E i \in 1..Len(fs) : fs[i].severity = FAIL THEN FAIL
    ELSE IF Len(fs) > 1 THEN WARN
    ELSE PASS

\* the "verdict" entry of the result
verdict_of(fs) ==
    IF \E i \in 1..Len(fs) : fs[i].severity = FAIL THEN FAIL
    ELSE IF fs # <<>> THEN WARN
    ELSE PASS

\* {k: len(v) for k, v in file_categories.items()}
category_counts(file_categories) ==
    [i \in 1..Len(file_categories) |->
        [key |-> file_categories[i].key, value |-> Len(file_categories[i].value)]]

\* audit_commit(ref): the dict it returns, with the git queries it made, the
\* checks it called and the values it handed to them
audit_commit(ref, g) ==
    LET message == get_commit_message(g)
    IN  IF message.none \/ message.text = ""
        THEN [result |-> [ref |-> ref, error |-> "Could not read commit message"],
              calls  |-> <<"message">>,
              called |-> <<>>,
              msg    |-> Nothing, diff |-> Nothing, rens |-> <<>>]
        ELSE IF is_merge_commit(g)
        THEN LET subject == get_commit_subject(g)
             IN  [result |-> [ref     |-> ref,
                              subject |-> IF subject.none THEN None ELSE subject.text,
                              skipped |-> TRUE,
                              reason  |-> "merge commit"],
                  calls  |-> <<"message", "parents", "subject">>,
                  called |-> <<>>,
                  msg    |-> Nothing, diff |-> Nothing, rens |-> <<>>]
        ELSE LET audited(msg, diff, rens, run) ==
                 [result |->
                     [ref             |-> ref,
                      subject         |-> msg.subject,
                      type            |-> msg.type,
                      scope           |-> msg.scope,
                      is_conventional |-> msg.is_conventional,
                      diff            |->
                          [files      |-> Len(diff.files),
                           added      |-> diff.total_added,
                           deleted    |-> diff.total_deleted,
                           total      |-> diff.total_added + diff.total_deleted,
                           renames    |-> Len(rens),
                           categories |-> category_counts(categorize_files(paths_of(diff)))],
                      findings        |-> run.findings,
                      verdict         |-> verdict_of(run.findings)],
                  calls  |-> <<"message", "parents">>
                                \o diff_stats_calls(g) \o diff_renames_calls(g),
                  called |-> run.called,
                  msg    |-> msg, diff |-> diff, rens |-> rens]
                 checked(msg, diff, rens) ==
                     audited(msg, diff, rens, run_checks(msg, diff, rens))
             IN  checked(parse_commit_message(message.text),
                         get_diff_stats(g), get_diff_renames(g))

\* result.get(key) == value, for a key whose values are strings
GetIs(d, key, value) == key \in DOMAIN d /\ d[key] = value

-----------------------------------------------------------------------------
(* Commands. *)

\* the value cmd_check returns for the dict audit_commit returned
cmd_check_return(res) ==
    IF GetIs(res, "verdict", FAIL) THEN 1
    ELSE IF GetIs(res, "verdict", WARN) THEN 1
    ELSE 0

\* results.append(result) with the newest result put first
log_append_newest_first(rs, res) == <<res>> \o rs

\* results.append(result)
log_append(rs, res) == Append(rs, res)

\* the counting of cmd_log with an error dict counted as skipped
log_count_error_as_skipped(cs, res) ==
    IF GetIs(res, "skipped", TRUE) \/ "error" \in DOMAIN res
    THEN [cs EXCEPT !.skip = @ + 1]
    ELSE IF GetIs(res, "verdict", PASS) THEN [cs EXCEPT !.pass = @ + 1]
    ELSE [cs EXCEPT !.warn = @ + 1]

\* the counters of cmd_log after one more result
log_count(cs, res) ==
    IF GetIs(res, "skipped", TRUE) THEN [cs EXCEPT !.skip = @ + 1]
    ELSE IF GetIs(res, "verdict", PASS) THEN [cs EXCEPT !.pass = @ + 1]
    ELSE [cs EXCEPT !.warn = @ + 1]

\* the value cmd_log returns after the loop
cmd_log_return(cs) == IF cs.warn > 0 THEN 1 ELSE 0

\* the script cmd_hook writes, for the path /opt/diffmatch/diffmatch.py of
\* the program; its dash in the first comment is written "-" here
hook_content(strict) ==
    "#!/bin/sh\n"
    \o "# diffmatch - commit-diff auditor hook\n"
    \o "# Installed by: diffmatch hook install\n"
    \o "\n"
    \o "# Run diffmatch on the commit being created\n"
    \o "# We validate the message file against the staged diff\n"
    \o "python \"/opt/diffmatch/diffmatch.py\" check HEAD 2>&1\n"
    \o "result=$?\n"
    \o (IF strict
        THEN "exit $result"
        ELSE "if [ $result -ne 0 ]; then echo \"  (diffmatch: warnings found, commit proceeding)\"; fi")
    \o "\n"

\* x in args
InArgs(x, a) == \E i \in 1..Len(a) : a[i] = x

\* the install branch writing the hook whatever file is there
hook_install_overwriting(a, file) ==
    [code |-> 0, file |-> hook_content(InArgs("--strict", a))]

\* the install branch of cmd_hook: the value returned and the hook file left
hook_install(a, file) ==
    IF file # None /\ Contains(file, "diffmatch")
    THEN [code |-> 0, file |-> file]
    ELSE IF file # None /\ ~InArgs("--force", a)
    THEN [code |-> 1, file |-> file]
    ELSE [code |-> 0, file |-> hook_content(InArgs("--strict", a))]

\* the uninstall branch of cmd_hook
hook_uninstall(file) ==
    IF file = None THEN [code |-> 0, file |-> file]
    ELSE IF ~Contains(file, "diffmatch") THEN [code |-> 0, file |-> file]
    ELSE [code |-> 0, file |-> None]

\* cmd_hook(args), given the answer of git to "rev-parse --git-dir"
cmd_hook(a, answer, file) ==
    IF a = <<>> \/ a[1] \notin {"install", "uninstall"}
    THEN [code |-> 2, file |-> file]
    ELSE IF Falsy(git(answer)) THEN [code |-> 2, file |-> file]
    ELSE IF a[1] = "install" THEN hook_install(a, file)
    ELSE hook_uninstall(file)

-----------------------------------------------------------------------------
(* The inputs: what git can answer, and the arguments of the checks. *)

\* the sequences over S of length at most n
SeqsUpTo(S, n) == UNION {[1..k -> S] : k \in 0..n}

\* the lines, each ended by a newline, as git prints them
RECURSIVE unlines(_)
unlines(lines) ==
    IF lines = <<>> THEN "" ELSE Head(lines) \o "\n" \o unlines(Tail(lines))

\* stdout of "git log -1 --format=%B" for the commits of the model
CommitMessages ==
    {"fix: typo in header\n\n",
     "feat: add new exporter\n\n",
     "fix(auth): patch token check\n\n",
     "update internal helpers\n\n",
     "rename helper module\n\n",
     "Docs: update README\n\nsmall typo\n\n",
     "feat(db)!: remove legacy api\n\n",
     "feat(api): add tiny exporter\n\n",
     "Merge branch 'dev'\n\n",
     "wip\n\n"}

\* answers to the message query after which there is no message to audit
NoMessageAnswers ==
    {Answer("error", ""), Answer("error", "fix: typo in hea"), Answer("timeout", ""),
     Answer("ok", ""), Answer("ok", "\n\n")}

\* lines "git diff --numstat" can print, and one line that is no numstat line
NumstatLines ==
    {"10\t12\tsrc/header.h",
     "3\t40\tsrc/db/exporter.py",
     "0\t0\tdocs/README.md",
     "-\t-\tassets/logo.png",
     "warning: inexact rename detection was skipped"}

NumstatTexts == {unlines(q) : q \in SeqsUpTo(NumstatLines, MaxFiles)}

\* stdout of "git diff --name-status --find-renames"
NameStatusTexts ==
    {"",
     "M\tsrc/header.h\n",
     "R100\told/a.go\tnew/a.go\n",
     "R100\ta\tb\nR090\tc\td\nM\te\nR100\tf\tg\nR075\th\ti\n"}

OneParent == Answer("ok", "1a2b3c4\n")

TwoParents == Answer("ok", "1a2b3c4 5d6e7f8\n")

\* answers to the parents query for a commit that is no merge
NoMergeAnswers == {Answer("ok", "\n"), OneParent, Answer("timeout", "")}

\* answers to the parents query for a merge commit
MergeAnswers == {TwoParents, Answer("ok", "1a2b3c4 5d6e7f8 9a0b1c2\n")}

Failures == {Answer("error", ""), Answer("timeout", "")}

Gateway(found, message, parents, subject, numstat, numstat_root, names, names_root) ==
    [git_found    |-> found,
     message      |-> message,
     parents      |-> parents,
     subject      |-> subject,
     numstat      |-> numstat,
     numstat_root |-> numstat_root,
     names        |-> names,
     names_root   |-> names_root]

\* the answers to the two forms of a diff query: the parent form answers
\* one of texts, or it fails and the root form answers one of roots
DiffAnswers(texts, roots) ==
    {<<Answer("ok", t), Answer("error", "")>> : t \in texts} \cup (Failures \X roots)

NumstatRoots ==
    {Answer("error", ""), Answer("timeout", ""), Answer("ok", ""),
     Answer("ok", "10\t12\tsrc/header.h\n")}

NameStatusRoots == {Answer("timeout", ""), Answer("ok", "R100\told/a.go\tnew/a.go\n")}

\* Gateways whose message query gives no message, for merges and others.
GatewaysNoMessage ==
    {Gateway(TRUE, m, p, Answer("ok", "wip\n"), d[1], d[2], n[1], n[2]) :
        m \in NoMessageAnswers, p \in {OneParent, TwoParents},
        d \in DiffAnswers({"", "10\t12\tsrc/header.h\n"}, NumstatRoots),
        n \in DiffAnswers({"R100\told/a.go\tnew/a.go\n"}, NameStatusRoots)}

\* Gateways of merge commits whose message is read.
GatewaysMerge ==
    {Gateway(TRUE, Answer("ok", m), p, s, d[1], d[2], n[1], n[2]) :
        m \in CommitMessages, p \in MergeAnswers,
        s \in {Answer("ok", "Merge branch 'dev'\n"), Answer("error", "")},
        d \in DiffAnswers({"", "10\t12\tsrc/header.h\n"}, NumstatRoots),
        n \in DiffAnswers({"R100\told/a.go\tnew/a.go\n"}, NameStatusRoots)}

\* Gateways of the other commits whose message is read: every diff for a
\* commit with one parent, and a few diffs for the other parent answers.
GatewaysAudit ==
    {Gateway(TRUE, Answer("ok", m), OneParent, Answer("ok", "wip\n"), d[1], d[2], n[1], n[2]) :
        m \in CommitMessages,
        d \in DiffAnswers(NumstatTexts, NumstatRoots),
        n \in DiffAnswers(NameStatusTexts, NameStatusRoots)}
    \cup
    {Gateway(TRUE, Answer("ok", m), p, Answer("ok", "wip\n"), d[1], d[2], n[1], n[2]) :
        m \in CommitMessages, p \in NoMergeAnswers,
        d \in DiffAnswers({"", "10\t12\tsrc/header.h\n"}, NumstatRoots),
        n \in DiffAnswers({"R100\told/a.go\tnew/a.go\n"}, NameStatusRoots)}

\* git is not installed: every query ends the process
GatewaysNoGit ==
    {Gateway(FALSE, Answer("error", ""), Answer("error", ""), Answer("error", ""),
             Answer("error", ""), Answer("error", ""), Answer("error", ""),
             Answer("error", ""))}

Gateways == GatewaysNoMessage \cup GatewaysMerge \cup GatewaysAudit \cup GatewaysNoGit

\* the COMMIT argument of the check command; HEAD when there is none
CheckRefs == {"HEAD", "1a2b3c4"}

\* descriptions and types for the size check
SizeMessages ==
    {"fix: typo in header", "fix: Typo in header", "fix typos in header",
     "minor small tiny cleanup", "style: whitespace and comment fixes",
     "tiny", "chore: tiny_fix", "refactor: non-minor rework of the core",
     "wip", "update the exporter module"}

SizeDeleted == {0, 12, 150}

\* the DiffStats of one changed file with the given line counts
DiffOf(added, deleted) ==
    [files         |-> <<[path |-> "src/app.py", added |-> added,
                          deleted |-> deleted, binary |-> FALSE]>>,
     total_added   |-> added,
     total_deleted |-> deleted]

\* descriptions and types for the direction check
DirMessages ==
    {"feat: add new exporter", "FEAT: new exporter", "feature: new exporter",
     "feat(core)!: create and remove exporters", "create exporter",
     "revert: delete exporter", "revert: added exporter", "remove exporter",
     "fix: address review"}

\* the messages of the sweep, in its order
SweepMessages ==
    <<"feat: add create remove delete", "revert: add create remove delete",
      "feat: add and create exporters", "revert: remove exporter">>

\* paths for categorize_files
Paths ==
    {"tests/test_build.sh", "tests/Makefile", "Makefile", "docs/spec.md",
     "README.md", "config/settings.yaml", ".github/workflows/ci.yml",
     "src/styles/main.css", "package.json", "src/app.py", "SRC/TEST_UTIL.PY",
     "Dockerfile.md"}

\* subjects for the scope check
ScopeMessages ==
    {"fix(auth): patch token check", "fix(Auth): patch token check",
     "docs: update guide", "Docs(api): describe the README",
     "test: cover the parser", "update README and guide", "fix: typo in header"}

\* changed paths for the scope check
ScopePaths ==
    {"src/db/query.go", "src/Auth/token.go", "docs/guide.md", "README.md",
     "tests/test_api.py", "src/api/server.py"}

\* the lists of at most n different paths of S: git names a changed path once
PathLists(S, n) ==
    {q \in SeqsUpTo(S, n) : \A i, j \in 1..Len(q) : q[i] = q[j] => i = j}

\* the DiffStats of the changed paths, each with two lines added and one deleted
DiffOfPaths(fps) ==
    [files         |-> [i \in 1..Len(fps) |->
                           [path |-> fps[i], added |-> 2, deleted |-> 1,
                            binary |-> FALSE]],
     total_added   |-> 2 * Len(fps),
     total_deleted |-> Len(fps)]

\* subjects for the rename check
RenameMessages ==
    {"update internal helpers", "rename helper module", "Move helpers to util",
     "refactor: RENAME the helper", "feat(db)!: remove legacy api",
     "renamed the helper module", "chore: moved files around",
     "fix: re-move stale lock", "rename_all helpers", "rename and move helpers"}

\* the renames git can report
RenameEntries ==
    {[from |-> "old/a.go", to |-> "new/a.go"],
     [from |-> "src/util.py", to |-> "src/utils.py"],
     [from |-> "README", to |-> "README.md"],
     [from |-> "lib/x.c", to |-> ""]}

\* lines for get_diff_stats: numstat lines of text files, of binary files
\* (with "-" for both counts, or for one), and lines that are no numstat lines
StatLines ==
    {"10\t12\tsrc/header.h", "3\t40\tsrc/db/exporter.py", "-\t-\tassets/logo.png",
     "-\t7\tdata.bin", "5\t-\tdata.idx",
     "warning: inexact rename detection was skipped", "1\t2\told.c\tnew.c"}

StatTexts == {unlines(q) : q \in SeqsUpTo(StatLines, MaxStatLines)}

\* Gateways that differ in the answers to the diff-statistics query.
GatewaysStats ==
    {Gateway(TRUE, Answer("ok", "wip\n\n"), OneParent, Answer("ok", "wip\n"),
             d[1], d[2], Answer("error", ""), Answer("error", "")) :
        d \in DiffAnswers(StatTexts, NumstatRoots)}

\* commit hashes "git log --format=%H" can print
Hashes == {"1a2b3c4", "5d6e7f8", "9a0b1c2"}

\* answers to the log query: no answer, or at most MaxLogRefs hashes, one a line
LogAnswers ==
    Failures \cup {Answer("ok", unlines(q)) : q \in PathLists(Hashes, MaxLogRefs)}

\* what git answers about one commit of the log: a commit that passes, one
\* with an empty diff, a merge commit, one whose message cannot be read
LogCommits ==
    {Gateway(TRUE, Answer("ok", "update internal helpers\n\n"), OneParent,
             Answer("ok", "update internal helpers\n"),
             Answer("ok", "10\t12\tsrc/header.h\n"), Answer("error", ""),
             Answer("ok", "M\tsrc/header.h\n"), Answer("error", "")),
     Gateway(TRUE, Answer("ok", "fix(auth): patch token check\n\n"), OneParent,
             Answer("ok", "fix(auth): patch token check\n"),
             Answer("ok", ""), Answer("error", ""),
             Answer("ok", ""), Answer("error", "")),
     Gateway(TRUE, Answer("ok", "Merge branch 'dev'\n\n"), TwoParents,
             Answer("ok", "Merge branch 'dev'\n"),
             Answer("ok", "10\t12\tsrc/header.h\n"), Answer("error", ""),
             Answer("ok", "M\tsrc/header.h\n"), Answer("error", "")),
     Gateway(TRUE, Answer("error", ""), OneParent, Answer("error", ""),
             Answer("error", ""), Answer("error", ""),
             Answer("error", ""), Answer("error", ""))}

\* what git answers during one log command
GatewaysLog ==
    {[git_found |-> TRUE, log |-> a, commits |-> c] :
        a \in LogAnswers, c \in [Hashes -> LogCommits]}
    \cup
    {[git_found |-> FALSE, log |-> Answer("error", ""),
      commits |-> [h \in Hashes |-> CHOOSE g \in GatewaysNoGit : TRUE]]}

\* argument lists of the hook command
HookArgs ==
    {<<"install">>, <<"install", "--strict">>, <<"install", "--force">>,
     <<"install", "--strict", "--force">>, <<"uninstall">>, <<>>, <<"status">>}

\* answers to "git rev-parse --git-dir"
GitDirAnswers == Failures \cup {Answer("ok", ".git\n"), Answer("ok", "")}

\* commit-msg hooks found before the first command: none, two that diffmatch
\* did not write (the second mentions it), and the two diffmatch writes
HookFiles ==
    {None, "#!/bin/sh\nexec gitlint --msg-filename \"$1\"\n",
     "#!/bin/sh\n# TODO: call diffmatch here\nexit 0\n",
     hook_content(FALSE), hook_content(TRUE)}

-----------------------------------------------------------------------------
(* The check command: one run of the process. *)

\* no log command and no hook command has run
CommandsIdle ==
    /\ refs = <<>> /\ results = <<>>
    /\ counts = [pass |-> 0, warn |-> 0, skip |-> 0]
    /\ hook_file = None /\ args = <<>>

Idle ==
    /\ result = Nothing /\ calls = <<>> /\ checks_run = <<>> /\ exit_code = -1
    /\ msg_parsed = Nothing /\ diff_stats = Nothing /\ renames = <<>>
    /\ findings = <<>> /\ filepaths = <<>> /\ categories = <<>>
    /\ cursor = 0 /\ cofired = FALSE
    /\ CommandsIdle

Init ==
    /\ pc = "start"
    /\ gw \in Gateways
    /\ Idle

\* cmd_check(args): the audit of the commit named in args and the exit code.
\* Without git in PATH the first query ends the process with code 2.
CmdCheck ==
    /\ pc = "start"
    /\ \E ref \in CheckRefs :
        IF ~gw.git_found
        THEN /\ exit_code' = 2
             /\ calls' = <<"message">>
             /\ UNCHANGED <<result, checks_run, msg_parsed, diff_stats, renames, findings>>
        ELSE \E a \in {audit_commit(ref, gw)} :
                 /\ result' = a.result
                 /\ calls' = a.calls
                 /\ checks_run' = a.called
                 /\ msg_parsed' = a.msg
                 /\ diff_stats' = a.diff
                 /\ renames' = a.rens
                 /\ findings' = IF "findings" \in DOMAIN a.result
                                THEN a.result.findings ELSE <<>>
                 /\ exit_code' = cmd_check_return(a.result)
    /\ pc' = "done"
    /\ UNCHANGED cmd_vars
    /\ UNCHANGED <<gw, filepaths, categories, cursor, cofired>>

Next == CmdCheck

Spec == Init /\ [][Next]_vars

-----------------------------------------------------------------------------
(* check_size_mismatch applied to a parsed message and a diff. *)

InitSize ==
    /\ pc = "start"
    /\ gw = Nothing
    /\ result = Nothing /\ calls = <<>> /\ checks_run = <<>> /\ exit_code = -1
    /\ msg_parsed \in {parse_commit_message(m) : m \in SizeMessages}
    /\ diff_stats \in {DiffOf(a, d) : a \in 0..MaxSizeAdded, d \in SizeDeleted}
    /\ renames = <<>> /\ findings = <<>> /\ filepaths = <<>> /\ categories = <<>>
    /\ cursor = 0 /\ cofired = FALSE
    /\ CommandsIdle

RunSizeCheck ==
    /\ pc = "start"
    /\ findings' = check_size_mismatch(msg_parsed, diff_stats)
    /\ pc' = "done"
    /\ UNCHANGED cmd_vars
    /\ UNCHANGED <<gw, result, calls, checks_run, exit_code, msg_parsed, diff_stats,
                   renames, filepaths, categories, cursor, cofired>>

NextSize == RunSizeCheck

SpecSize == InitSize /\ [][NextSize]_vars

-----------------------------------------------------------------------------
(* check_direction_mismatch applied to a parsed message and a diff. *)

InitDir ==
    /\ pc = "start"
    /\ gw = Nothing
    /\ result = Nothing /\ calls = <<>> /\ checks_run = <<>> /\ exit_code = -1
    /\ msg_parsed \in {parse_commit_message(m) : m \in DirMessages}
    /\ diff_stats \in {DiffOf(a, d) : a \in 0..MaxDirLines, d \in 0..MaxDirLines}
    /\ renames = <<>> /\ findings = <<>> /\ filepaths = <<>> /\ categories = <<>>
    /\ cursor = 0 /\ cofired = FALSE
    /\ CommandsIdle

RunDirectionCheck ==
    /\ pc = "start"
    /\ findings' = check_direction_mismatch(msg_parsed, diff_stats)
    /\ pc' = "done"
    /\ UNCHANGED cmd_vars
    /\ UNCHANGED <<gw, result, calls, checks_run, exit_code, msg_parsed, diff_stats,
                   renames, filepaths, categories, cursor, cofired>>

NextDir == RunDirectionCheck

SpecDir == InitDir /\ [][NextDir]_vars

-----------------------------------------------------------------------------
(* categorize_files applied to a list of paths. *)

InitCat ==
    /\ pc = "start"
    /\ gw = Nothing
    /\ filepaths \in SeqsUpTo(Paths, MaxPaths)
    /\ result = Nothing /\ calls = <<>> /\ checks_run = <<>> /\ exit_code = -1
    /\ msg_parsed = Nothing /\ diff_stats = Nothing /\ renames = <<>>
    /\ findings = <<>> /\ categories = <<>>
    /\ cursor = 0 /\ cofired = FALSE
    /\ CommandsIdle

RunCategorize ==
    /\ pc = "start"
    /\ categories' = categorize_files(filepaths)
    /\ pc' = "done"
    /\ UNCHANGED cmd_vars
    /\ UNCHANGED <<gw, result, calls, checks_run, exit_code, msg_parsed, diff_stats,
                   renames, findings, filepaths, cursor, cofired>>

NextCat == RunCategorize

SpecCat == InitCat /\ [][NextCat]_vars

-----------------------------------------------------------------------------
(* check_scope_mismatch applied to a parsed message and a diff. *)

InitScope ==
    /\ pc = "start"
    /\ gw = Nothing
    /\ result = Nothing /\ calls = <<>> /\ checks_run = <<>> /\ exit_code = -1
    /\ msg_parsed \in {parse_commit_message(m) : m \in ScopeMessages}
    /\ diff_stats \in {DiffOfPaths(fps) : fps \in PathLists(ScopePaths, MaxScopeFiles)}
    /\ renames = <<>> /\ findings = <<>> /\ filepaths = <<>> /\ categories = <<>>
    /\ cursor = 0 /\ cofired = FALSE
    /\ CommandsIdle

RunScopeCheck ==
    /\ pc = "start"
    /\ findings' = check_scope_mismatch(msg_parsed, diff_stats)
    /\ pc' = "done"
    /\ UNCHANGED cmd_vars
    /\ UNCHANGED <<gw, result, calls, checks_run, exit_code, msg_parsed, diff_stats,
                   renames, filepaths, categories, cursor, cofired>>

NextScope == RunScopeCheck

SpecScope == InitScope /\ [][NextScope]_vars

-----------------------------------------------------------------------------
(* check_rename_mismatch applied to a parsed message and the renames. *)

InitRename ==
    /\ pc = "start"
    /\ gw = Nothing
    /\ result = Nothing /\ calls = <<>> /\ checks_run = <<>> /\ exit_code = -1
    /\ msg_parsed \in {parse_commit_message(m) : m \in RenameMessages}
    /\ diff_stats = DiffOfPaths(<<>>)
    /\ renames \in PathLists(RenameEntries, MaxRenames)
    /\ findings = <<>> /\ filepaths = <<>> /\ categories = <<>>
    /\ cursor = 0 /\ cofired = FALSE
    /\ CommandsIdle

RunRenameCheck ==
    /\ pc = "start"
    /\ findings' = check_rename_mismatch(msg_parsed, diff_stats, renames)
    /\ pc' = "done"
    /\ UNCHANGED cmd_vars
    /\ UNCHANGED <<gw, result, calls, checks_run, exit_code, msg_parsed, diff_stats,
                   renames, filepaths, categories, cursor, cofired>>

NextRename == RunRenameCheck

SpecRename == InitRename /\ [][NextRename]_vars

-----------------------------------------------------------------------------
(* get_diff_stats applied to the answers of git. *)

InitStats ==
    /\ pc = "start"
    /\ gw \in GatewaysStats
    /\ Idle

RunDiffStats ==
    /\ pc = "start"
    /\ diff_stats' = get_diff_stats(gw)
    /\ calls' = diff_stats_calls(gw)
    /\ pc' = "done"
    /\ UNCHANGED cmd_vars
    /\ UNCHANGED <<gw, result, checks_run, exit_code, msg_parsed, renames, findings,
                   filepaths, categories, cursor, cofired>>

NextStats == RunDiffStats

SpecStats == InitStats /\ [][NextStats]_vars

-----------------------------------------------------------------------------
(* The log command: the listing, one audit for each commit, the exit code. *)

InitLog ==
    /\ pc = "start"
    /\ gw \in GatewaysLog
    /\ Idle

\* cmd_log up to the loop: without git in PATH the query ends the process
\* with code 2; with no output the command returns 2
LogList ==
    /\ pc = "start"
    /\ IF ~gw.git_found
       THEN /\ exit_code' = 2 /\ pc' = "done"
            /\ UNCHANGED refs
       ELSE IF Falsy(git(gw.log))
       THEN /\ exit_code' = 2 /\ pc' = "done"
            /\ UNCHANGED refs
       ELSE /\ refs' = splitlines(strip(git(gw.log).text))
            /\ pc' = "loop"
            /\ UNCHANGED exit_code
    /\ calls' = <<"log">>
    /\ UNCHANGED <<gw, result, checks_run, msg_parsed, diff_stats, renames, findings,
                   filepaths, categories, cursor, cofired, results, counts,
                   hook_file, args>>

\* one pass of the loop over refs
LogAudit ==
    /\ pc = "loop"
    /\ cursor < Len(refs)
    /\ \E a \in {audit_commit(refs[cursor + 1], gw.commits[refs[cursor + 1]])} :
          /\ result' = a.result
          /\ results' = log_append(results, a.result)
          /\ counts' = log_count(counts, a.result)
          /\ calls' = calls \o a.calls
    /\ cursor' = cursor + 1
    /\ UNCHANGED <<pc, gw, checks_run, exit_code, msg_parsed, diff_stats, renames,
                   findings, filepaths, categories, cofired, refs, hook_file, args>>

\* cmd_log after the loop
LogReturn ==
    /\ pc = "loop"
    /\ cursor = Len(refs)
    /\ exit_code' = cmd_log_return(counts)
    /\ pc' = "done"
    /\ UNCHANGED <<gw, result, calls, checks_run, msg_parsed, diff_stats, renames,
                   findings, filepaths, categories, cursor, cofired, refs, results,
                   counts, hook_file, args>>

NextLog == LogList \/ LogAudit \/ LogReturn

SpecLog == InitLog /\ [][NextLog]_vars

-----------------------------------------------------------------------------
(* The hook command, run MaxCommands times on one repository. *)

InitHook ==
    /\ pc = "start"
    /\ gw = Nothing
    /\ result = Nothing /\ calls = <<>> /\ checks_run = <<>> /\ exit_code = -1
    /\ msg_parsed = Nothing /\ diff_stats = Nothing /\ renames = <<>>
    /\ findings = <<>> /\ filepaths = <<>> /\ categories = <<>>
    /\ cursor = 0 /\ cofired = FALSE
    /\ refs = <<>> /\ results = <<>>
    /\ counts = [pass |-> 0, warn |-> 0, skip |-> 0]
    /\ hook_file \in HookFiles
    /\ args = <<>>

\* one run of "diffmatch hook ...": without git in PATH the query ends the
\* process with code 2, unless the arguments were refused before it
CmdHook ==
    /\ cursor < MaxCommands
    /\ \E a \in HookArgs, found \in BOOLEAN, answer \in GitDirAnswers :
          /\ found \/ answer = Answer("error", "")
          /\ args' = a
          /\ gw' = [git_found |-> found, git_dir |-> answer]
          /\ \E r \in {cmd_hook(a, answer, hook_file)} :
                IF ~found /\ a # <<>> /\ a[1] \in {"install", "uninstall"}
                THEN exit_code' = 2 /\ UNCHANGED hook_file
                ELSE exit_code' = r.code /\ hook_file' = r.file
    /\ cursor' = cursor + 1
    /\ pc' = "done"
    /\ UNCHANGED <<result, calls, checks_run, msg_parsed, diff_stats, renames,
                   findings, filepaths, categories, cofired, refs, results, counts>>

NextHook == CmdHook

SpecHook == InitHook /\ [][NextHook]_vars

-----------------------------------------------------------------------------
(* check_direction_mismatch applied to every input of a grid, one after the *)
(* other: each message of SweepMessages with each pair of line counts.      *)

SweepSide == MaxSweepLines + 1

SweepSize == Len(SweepMessages) * SweepSide * SweepSide

\* the k-th input of the grid, k in 1..SweepSize
SweepInput(k) ==
    [msg  |-> parse_commit_message(SweepMessages[((k - 1) \div (SweepSide * SweepSide)) + 1]),
     diff |-> DiffOf(((k - 1) \div SweepSide) % SweepSide, (k - 1) % SweepSide)]

\* the findings hold one of each of the four sub-rules
AllFourFired(fs) ==
    \A text \in {"says word but mostly deletions", "says word but mostly additions",
                 "type is feat but mostly deletions", "type is revert but mostly additions"} :
        \E i \in 1..Len(fs) : fs[i].message.text = text

InitSweep ==
    /\ pc = "start"
    /\ gw = Nothing
    /\ result = Nothing /\ calls = <<>> /\ checks_run = <<>> /\ exit_code = -1
    /\ msg_parsed = Nothing /\ diff_stats = Nothing /\ renames = <<>>
    /\ findings = <<>> /\ filepaths = <<>> /\ categories = <<>>
    /\ cursor = 0 /\ cofired = FALSE
    /\ CommandsIdle

SweepStep ==
    /\ pc = "start"
    /\ cursor < SweepSize
    /\ \E in \in {SweepInput(cursor + 1)} :
        \E fs \in {check_direction_mismatch(in.msg, in.diff)} :
            /\ msg_parsed' = in.msg
            /\ diff_stats' = in.diff
            /\ findings' = fs
            /\ cofired' = (cofired \/ AllFourFired(fs))
    /\ cursor' = cursor + 1
    /\ pc' = IF cursor + 1 = SweepSize THEN "done" ELSE "start"
    /\ UNCHANGED cmd_vars
    /\ UNCHANGED <<gw, result, calls, checks_run, exit_code, renames, filepaths, categories>>

NextSweep == SweepStep

SpecSweep == InitSweep /\ [][NextSweep]_vars

-----------------------------------------------------------------------------
(* Properties of audit_commit, checked under Spec. *)

\* the run ended with a dict returned by audit_commit
Audited == pc = "done" /\ gw.git_found

\* the dict is an AuditResult, a Skipped outcome, a GatewayError outcome
IsAuditResult == Audited /\ "findings" \in DOMAIN result

IsSkipped == Audited /\ "skipped" \in DOMAIN result

IsGatewayError == Audited /\ "error" \in DOMAIN result

\* git printed a message that is not blank
MessageRead ==
    /\ gw.message.status = "ok"
    /\ \E i \in 1..Len(gw.message.stdout) : ~IsSpace(Char(gw.message.stdout, i))

\* git reported two or more parents
MergeReported ==
    /\ gw.parents.status = "ok"
    /\ Len(tokens(gw.parents.stdout)) >= 2

\* a diff or rename query was made
DiffQueried ==
    \E i \in 1..Len(calls) : calls[i] \in {"numstat", "numstat_root", "names", "names_root"}

\* the number of findings of the given check
CountOf(fs, check) == Cardinality({i \in 1..Len(fs) : fs[i].check = check})

\* C1: the verdict of every AuditResult follows from its findings: fail if
\* one of them has severity fail, else warn if there is a finding, else pass.
C1_VerdictDerived ==
    IsAuditResult =>
        /\ "verdict" \in DOMAIN result
        /\ result.verdict =
              IF \E i \in 1..Len(result.findings) : result.findings[i].severity = "fail"
              THEN "fail"
              ELSE IF Len(result.findings) >= 1 THEN "warn" ELSE "pass"

\* C1 witness: an AuditResult with exactly one finding and the verdict warn.
C1_Witness ==
    /\ IsAuditResult
    /\ Len(result.findings) = 1
    /\ result.verdict = "warn"

\* C2 as claimed: every merge commit gives a Skipped outcome and no check
\* runs, whatever git answers to the message query.
C2_MergeAlwaysSkipped ==
    (Audited /\ MergeReported) => (IsSkipped /\ checks_run = <<>>)

\* C2 as amended: for a merge commit no check runs and no diff or rename
\* query is made; the outcome is Skipped with the reason "merge commit" when
\* the message was read, and the GatewayError outcome when it was not.
C2_MergeSkippedWhenMessageRead ==
    (Audited /\ MergeReported) =>
        /\ checks_run = <<>>
        /\ ~DiffQueried
        /\ ~IsAuditResult
        /\ MessageRead => (IsSkipped /\ result.skipped /\ result.reason = "merge commit")
        /\ ~MessageRead => IsGatewayError

\* C2 witness: a merge commit with a conventional message and a diff git
\* would report, skipped.
C2_Witness ==
    /\ Audited /\ MergeReported /\ IsSkipped
    /\ gw.message.stdout = "fix: typo in header\n\n"
    /\ gw.numstat = Answer("ok", "10\t12\tsrc/header.h\n")
    /\ gw.names = Answer("ok", "R100\told/a.go\tnew/a.go\n")

\* C3: when the message cannot be read, audit_commit returns the GatewayError
\* outcome "could not read commit message" and nothing else happens: the
\* message query is the only one, no check runs, and the outcome has neither
\* findings nor verdict.
C3_NoMessageGatewayError ==
    (Audited /\ ~MessageRead) =>
        /\ DOMAIN result = {"ref", "error"}
        /\ lower(result.error) = "could not read commit message"
        /\ calls = <<"message">>
        /\ checks_run = <<>>
        /\ findings = <<>>

\* C3 witness: the message query of a commit with a diff ends with an error
\* status, and the GatewayError outcome is returned.
C3_Witness ==
    /\ Audited /\ IsGatewayError
    /\ gw.message.status = "error"
    /\ gw.message.stdout # ""
    /\ gw.numstat = Answer("ok", "10\t12\tsrc/header.h\n")

\* C4 as claimed: with zero changed files the findings are exactly the one
\* empty_diff finding.
C4_OnlyEmptyDiff ==
    (IsAuditResult /\ diff_stats.files = <<>>) =>
        /\ Len(result.findings) = 1
        /\ result.findings[1].check = "empty_diff"

\* C4 as amended: with zero changed files the last finding is the one
\* empty_diff warn, the size, direction and scope checks emit nothing, and
\* the only finding that can precede it is one rename_mismatch warn.
C4_EmptyDiffAndRenameOnly ==
    (IsAuditResult /\ diff_stats.files = <<>>) =>
        /\ result.diff.files = 0
        /\ Len(result.findings) \in {1, 2}
        /\ result.findings[Len(result.findings)].check = "empty_diff"
        /\ Len(result.findings) = 2 => result.findings[1].check = "rename_mismatch"
        /\ \A i \in 1..Len(result.findings) : result.findings[i].severity = "warn"

\* C4 witness: a commit with a scope and no changed file, whose only
\* findings are a rename_mismatch and the empty_diff.
C4_Witness ==
    /\ IsAuditResult /\ diff_stats.files = <<>>
    /\ msg_parsed.scope = "auth"
    /\ Len(result.findings) = 2
    /\ result.findings[1].check = "rename_mismatch"

\* C5: every finding of every check has severity warn, so the verdict of an
\* AuditResult is pass or warn, never fail.
C5_NoFailSeverity ==
    IsAuditResult =>
        /\ \A i \in 1..Len(result.findings) : result.findings[i].severity = "warn"
        /\ result.verdict \in {"pass", "warn"}

\* C5 witness: an audit with findings of four of the checks.
C5_Witness ==
    /\ IsAuditResult
    /\ \A c \in {"size_mismatch", "direction_mismatch", "scope_mismatch", "rename_mismatch"} :
          CountOf(result.findings, c) >= 1

\* the place of a check in the registration order
RankOf(check) ==
    CASE check = "size_mismatch"      -> 1
      [] check = "direction_mismatch" -> 2
      [] check = "scope_mismatch"     -> 3
      [] check = "rename_mismatch"    -> 4
      [] check = "empty_diff"         -> 5

\* C6: the findings of an AuditResult are the outputs of the five checks
\* joined in the registration order size, direction, scope, rename, empty:
\* every check was called, nothing is dropped, and no finding of an earlier
\* check follows one of a later check.
C6_FindingsInRegistrationOrder ==
    IsAuditResult =>
        /\ checks_run = <<"check_size_mismatch", "check_direction_mismatch",
                          "check_scope_mismatch", "check_rename_mismatch",
                          "check_empty_diff">>
        /\ result.findings =
              check_size_mismatch(msg_parsed, diff_stats)
              \o check_direction_mismatch(msg_parsed, diff_stats)
              \o check_scope_mismatch(msg_parsed, diff_stats)
              \o check_rename_mismatch(msg_parsed, diff_stats, renames)
              \o check_empty_diff(msg_parsed, diff_stats)
        /\ \A i, j \in 1..Len(result.findings) :
              i < j => RankOf(result.findings[i].check) <= RankOf(result.findings[j].check)

\* C6 witness: an audit with two direction findings, and findings of the
\* size, the scope and the rename check around them.
C6_Witness ==
    /\ IsAuditResult
    /\ Len(result.findings) = 5
    /\ CountOf(result.findings, "direction_mismatch") = 2
    /\ result.findings[1].check = "size_mismatch"
    /\ result.findings[4].check = "scope_mismatch"
    /\ result.findings[5].check = "rename_mismatch"

\* how often the query was made
TimesCalled(q) == Cardinality({i \in 1..Len(calls) : calls[i] = q})

\* both forms of the diff-statistics query failed or timed out
DiffStatsFailed == gw.numstat.status # "ok" /\ gw.numstat_root.status # "ok"

\* C14: for a commit that is no merge and whose message was read, a failed
\* diff or rename query gives no GatewayError: audit_commit returns an
\* AuditResult, and when both forms of the diff-statistics query fail its
\* diff summary is 0 files, 0 added, 0 deleted, the empty_diff warn is among
\* the findings and the verdict is warn.  Each query is made once, the root
\* form only after the parent form failed, and its answer is then used.
C14_DiffFailureIsEmptyDiff ==
    (Audited /\ MessageRead /\ ~MergeReported) =>
        /\ IsAuditResult
        /\ DiffStatsFailed =>
              /\ result.diff.files = 0
              /\ result.diff.added = 0
              /\ result.diff.deleted = 0
              /\ \E i \in 1..Len(result.findings) :
                    /\ result.findings[i].check = "empty_diff"
                    /\ result.findings[i].severity = "warn"
              /\ result.verdict = "warn"
        /\ TimesCalled("numstat") = 1 /\ TimesCalled("names") = 1
        /\ TimesCalled("numstat_root") = IF gw.numstat.status # "ok" THEN 1 ELSE 0
        /\ TimesCalled("names_root") = IF gw.names.status # "ok" THEN 1 ELSE 0
        /\ (gw.numstat.status # "ok"
                /\ gw.numstat_root = Answer("ok", "10\t12\tsrc/header.h\n")) =>
              /\ result.diff.files = 1
              /\ result.diff.added = 10
              /\ result.diff.deleted = 12

\* C14 witness: the parent form of the diff-statistics query fails, the root
\* form times out, the rename queries fail too, and the audit ends in an
\* AuditResult with the verdict warn.
C14_Witness ==
    /\ IsAuditResult
    /\ gw.numstat.status = "error" /\ gw.numstat_root.status = "timeout"
    /\ gw.names.status # "ok" /\ gw.names_root.status # "ok"
    /\ result.diff.files = 0
    /\ result.verdict = "warn"
    /\ calls = <<"message", "parents", "numstat", "numstat_root", "names", "names_root">>

\* C17 as stated: when audit_commit returns the "could not read commit
\* message" error the check command exits with code 2, and it exits with
\* code 0 only when the audit ended without a GatewayError.
C17_GatewayErrorExitsTwo ==
    Audited =>
        /\ IsGatewayError => exit_code = 2
        /\ exit_code = 0 => ~IsGatewayError

-----------------------------------------------------------------------------
(* Properties of categorize_files, checked under SpecCat. *)

\* the priority order of the categories
CategoryPriority == <<"test", "docs", "config", "ci", "style", "build">>

\* some pattern of the category matches the path
MatchesCategory(category, fp) ==
    \E i \in 1..Len(FILE_CATEGORIES) :
        /\ FILE_CATEGORIES[i].category = category
        /\ category_matches(FILE_CATEGORIES[i], lower(fp))

\* the first category of the priority order with a matching pattern, or code
FirstCategory(fp) ==
    LET ks == {k \in 1..Len(CategoryPriority) : MatchesCategory(CategoryPriority[k], fp)}
    IN  IF ks = {} THEN "code"
        ELSE CategoryPriority[CHOOSE k \in ks : \A j \in ks : k <= j]

\* C7: categorize_files puts each path in exactly one category, the first of
\* test, docs, config, ci, style, build with a matching pattern, or code; a
\* path matching a test and a build pattern is test, and the category counts
\* sum to the number of paths.
C7_FirstCategoryWins ==
    pc = "done" =>
        /\ \A i, j \in 1..Len(categories) : i # j => categories[i].key # categories[j].key
        /\ \A i \in 1..Len(categories) :
              /\ categories[i].value # <<>>
              /\ categories[i].value =
                    SelectSeq(filepaths, LAMBDA f : FirstCategory(f) = categories[i].key)
        /\ \A i \in 1..Len(filepaths) :
              \E k \in 1..Len(categories) : categories[k].key = FirstCategory(filepaths[i])
        /\ SumSeq([i \in 1..Len(categories) |-> category_counts(categories)[i].value])
              = Len(filepaths)
        /\ \A i \in 1..Len(filepaths) :
              (MatchesCategory("test", filepaths[i]) /\ MatchesCategory("build", filepaths[i]))
                  => /\ \E x \in 1..Len(GetList(categories, "test")) :
                            GetList(categories, "test")[x] = filepaths[i]
                     /\ \A x \in 1..Len(GetList(categories, "build")) :
                            GetList(categories, "build")[x] # filepaths[i]

\* C7 witness: "tests/test_build.sh" and "tests/Makefile", which matches a
\* test and a build pattern, are both in the test category and nowhere else.
C7_Witness ==
    /\ pc = "done"
    /\ filepaths = <<"tests/test_build.sh", "tests/Makefile">>
    /\ MatchesCategory("build", "tests/Makefile")
    /\ categories = <<[key |-> "test", value |-> <<"tests/test_build.sh", "tests/Makefile">>]>>

-----------------------------------------------------------------------------
(* Properties of check_size_mismatch, checked under SpecSize. *)

\* the small-change words and their thresholds
SmallChangeThreshold ==
    [w \in {"typo", "minor", "small", "tiny", "whitespace", "comment"} |->
        CASE w = "typo" -> 20 [] w = "minor" -> 30 [] w = "small" -> 30
          [] w = "tiny" -> 15 [] w = "whitespace" -> 50 [] w = "comment" -> 30]

\* the findings of the small-word rule that name the word
SmallWordFindings(fs, w) ==
    {i \in 1..Len(fs) :
        /\ fs[i].check = "size_mismatch"
        /\ fs[i].message.text = "says word but diff is large"
        /\ fs[i].message.word = w}

\* C8: the size check emits one warn for each small-change word that is in
\* the description as a word and whose threshold the changed lines exceed,
\* naming the word, the lines, the files and the threshold, and none for a
\* word that is absent or whose threshold is not exceeded.
C8_SmallWordThresholds ==
    pc = "done" =>
        LET total == diff_stats.total_added + diff_stats.total_deleted
        IN  /\ \A w \in DOMAIN SmallChangeThreshold :
                  Cardinality(SmallWordFindings(findings, w)) =
                      IF /\ re_search_word(w, lower(msg_parsed.description))
                         /\ total > SmallChangeThreshold[w]
                      THEN 1 ELSE 0
            /\ \A i \in 1..Len(findings) :
                  findings[i].message.text = "says word but diff is large" =>
                      /\ findings[i].severity = "warn"
                      /\ findings[i].message.word \in DOMAIN SmallChangeThreshold
                      /\ findings[i].message.nums =
                            <<total, Len(diff_stats.files),
                              SmallChangeThreshold[findings[i].message.word]>>

\* C8 witness: "fix: typo in header" with +10/-12 gives the warn for "typo"
\* with 22 lines against the threshold 20.
C8_Witness ==
    /\ pc = "done"
    /\ msg_parsed.subject = "fix: typo in header"
    /\ diff_stats.total_added = 10 /\ diff_stats.total_deleted = 12
    /\ Len(findings) = 1
    /\ findings[1].check = "size_mismatch"
    /\ findings[1].message.word = "typo"
    /\ findings[1].message.nums = <<22, 1, 20>>

-----------------------------------------------------------------------------
(* Properties of check_direction_mismatch, checked under SpecDir. *)

\* the findings with the given sentence
WithText(fs, text) == {i \in 1..Len(fs) : fs[i].message.text = text}

\* C9: the direction check emits the feat warn exactly when the type is
\* feat, more than 10 lines changed and more than 0.8 of them are deletions;
\* with no changed line it emits nothing.
C9_FeatMostlyDeletions ==
    pc = "done" =>
        LET added   == diff_stats.total_added
            deleted == diff_stats.total_deleted
            total   == added + deleted
        IN  /\ Cardinality(WithText(findings, "type is feat but mostly deletions")) =
                  IF msg_parsed.type = "feat" /\ total > 10 /\ 10 * deleted > 8 * total
                  THEN 1 ELSE 0
            /\ \A i \in WithText(findings, "type is feat but mostly deletions") :
                  /\ findings[i].check = "direction_mismatch"
                  /\ findings[i].severity = "warn"
            /\ total = 0 => findings = <<>>

\* C9 witness: "feat: add new exporter" with +3/-40 gives the feat warn.
C9_Witness ==
    /\ pc = "done"
    /\ msg_parsed.subject = "feat: add new exporter"
    /\ diff_stats.total_added = 3 /\ diff_stats.total_deleted = 40
    /\ Cardinality(WithText(findings, "type is feat but mostly deletions")) = 1

-----------------------------------------------------------------------------
(* Properties of the sub-rules of check_direction_mismatch, checked under   *)
(* SpecSweep.                                                               *)

\* the finding of a word rule for the word is among the findings
WordRuleFired(fs, text, w) ==
    \E i \in WithText(fs, text) : fs[i].message.word = w

\* C10 as claimed: some input makes all four sub-rules produce a finding in
\* the same audit; the sweep, once over every input, has met one.
C10_AllFourCoFire == pc = "done" => cofired

\* C10 as amended: each sub-rule fires exactly when its own condition
\* holds, whatever the others do, and sub-rules co-fire only on one side:
\* add/create with feat on mostly deletions, remove/delete with revert on
\* mostly additions.  No input makes a deletion-side and an addition-side
\* sub-rule fire together, so the four never fire in the same audit.
C10_SubRulesCoFireBySide ==
    cursor > 0 =>
        LET added   == diff_stats.total_added
            deleted == diff_stats.total_deleted
            total   == added + deleted
            desc    == lower(msg_parsed.description)
        IN  /\ \A w \in {"add", "create"} :
                  WordRuleFired(findings, "says word but mostly deletions", w)
                      <=> /\ re_search_word(w, desc)
                          /\ total > 0 /\ 10 * deleted > 7 * total /\ deleted > 10
            /\ \A w \in {"remove", "delete"} :
                  WordRuleFired(findings, "says word but mostly additions", w)
                      <=> /\ re_search_word(w, desc)
                          /\ total > 0 /\ 10 * added > 7 * total /\ added > 10
            /\ WithText(findings, "type is feat but mostly deletions") # {}
                  <=> (msg_parsed.type = "feat" /\ total > 10 /\ 10 * deleted > 8 * total)
            /\ WithText(findings, "type is revert but mostly additions") # {}
                  <=> (msg_parsed.type = "revert" /\ total > 10 /\ 10 * added > 8 * total)
            /\ ~(/\ \E i \in 1..Len(findings) :
                        findings[i].message.text \in {"says word but mostly deletions",
                                                      "type is feat but mostly deletions"}
                 /\ \E i \in 1..Len(findings) :
                        findings[i].message.text \in {"says word but mostly additions",
                                                      "type is revert but mostly additions"})
            /\ ~AllFourFired(findings)

\* C10 witness: the add/create sub-rule, for both words, and the feat
\* sub-rule fire in the same audit.
C10_Witness ==
    /\ cursor > 0
    /\ WordRuleFired(findings, "says word but mostly deletions", "add")
    /\ WordRuleFired(findings, "says word but mostly deletions", "create")
    /\ WithText(findings, "type is feat but mostly deletions") # {}
    /\ Len(findings) = 3

-----------------------------------------------------------------------------
(* Properties of check_scope_mismatch, checked under SpecScope. *)

\* the character of s at position i, in lower case
LowerChar(s, i) ==
    IF Char(s, i) \in DOMAIN LowerOf THEN LowerOf[Char(s, i)] ELSE Char(s, i)

\* sub occurs in s when upper and lower case are not told apart
ContainsIgnoringCase(s, sub) ==
    \E k \in 0..(Len(s) - Len(sub)) :
        \A j \in 1..Len(sub) : LowerChar(s, k + j) = LowerChar(sub, j)

\* the changed paths of the diff handed to the check
ChangedPaths == [i \in 1..Len(diff_stats.files) |-> diff_stats.files[i].path]

\* C11: the scope check emits the scope warn exactly when the message has a
\* scope, at least one file changed and no changed path contains the scope
\* text, case ignored; the warn names the scope and the number of files.
C11_ScopeWarnExactly ==
    pc = "done" =>
        LET scope_warns == WithText(findings, "scope is in no changed path")
            in_a_path   == \E i \in 1..Len(ChangedPaths) :
                               ContainsIgnoringCase(ChangedPaths[i], msg_parsed.scope)
        IN  /\ Cardinality(scope_warns) =
                  IF msg_parsed.scope # None /\ Len(ChangedPaths) > 0 /\ ~in_a_path
                  THEN 1 ELSE 0
            /\ \A i \in scope_warns :
                  /\ findings[i].severity = "warn"
                  /\ findings[i].check = "scope_mismatch"
                  /\ findings[i].message.word = msg_parsed.scope
                  /\ findings[i].message.nums = <<Len(ChangedPaths)>>

\* C11 witness: "fix(auth): patch token check" with src/db/query.go changed
\* gives the scope warn.
C11_Witness ==
    /\ pc = "done"
    /\ msg_parsed.subject = "fix(auth): patch token check"
    /\ ChangedPaths = <<"src/db/query.go">>
    /\ Cardinality(WithText(findings, "scope is in no changed path")) = 1

\* the changed paths that categorize_files puts outside the docs category
NonDocPaths == SelectSeq(ChangedPaths, LAMBDA fp : category_of(fp) # "docs")

\* C12: when the type is docs and a changed file falls outside the docs
\* category, the scope check emits the docs warn, listing at most 3 non-doc
\* paths; also when documentation files changed as well.
C12_DocsWarnWheneverNonDoc ==
    pc = "done" =>
        (msg_parsed.type = "docs" /\ NonDocPaths # <<>> =>
            \E i \in WithText(findings, "type is docs but non-documentation changed") :
                /\ findings[i].severity = "warn"
                /\ findings[i].check = "scope_mismatch"
                /\ Len(findings[i].message.paths) \in 1..3
                /\ \A j \in 1..Len(findings[i].message.paths) :
                       \E k \in 1..Len(NonDocPaths) :
                           NonDocPaths[k] = findings[i].message.paths[j])

-----------------------------------------------------------------------------
(* Properties of check_rename_mismatch, checked under SpecRename. *)

\* w, written in lower case, occurs in text as a whole word, case ignored:
\* no letter, digit or underscore stands right before or right after it
WholeWordIn(text, w) ==
    \E k \in 0..(Len(text) - Len(w)) :
        /\ \A j \in 1..Len(w) : LowerChar(text, k + j) = Char(w, j)
        /\ k = 0 \/ ~IsWordChar(Char(text, k))
        /\ k + Len(w) = Len(text) \/ ~IsWordChar(Char(text, k + Len(w) + 1))

\* the two findings of the rename check
NoneDetected == WithText(findings, "implies renaming but none detected")
NotMentioned == WithText(findings, "renames not mentioned")

\* C13 as stated: the "none detected" warn is emitted exactly when the
\* description contains "rename" or "move" and there is no rename, the "not
\* mentioned" warn exactly when there are renames and it contains neither.
C13_RenameWarnsBySubstring ==
    pc = "done" =>
        LET said == \/ ContainsIgnoringCase(msg_parsed.description, "rename")
                    \/ ContainsIgnoringCase(msg_parsed.description, "move")
        IN  /\ Cardinality(NoneDetected) = IF said /\ renames = <<>> THEN 1 ELSE 0
            /\ Cardinality(NotMentioned) = IF renames # <<>> /\ ~said THEN 1 ELSE 0
            /\ Len(findings) <= 1

\* C13, amended: the "none detected" warn is emitted exactly when the
\* description has "rename" or "move" as a whole word, case ignored, and there
\* is no rename; the "not mentioned" warn exactly when there are renames and
\* it has neither word; so the check emits at most one finding, a
\* rename_mismatch warn.
C13_RenameWarnsByWholeWord ==
    pc = "done" =>
        LET said == \/ WholeWordIn(msg_parsed.description, "rename")
                    \/ WholeWordIn(msg_parsed.description, "move")
        IN  /\ Cardinality(NoneDetected) = IF said /\ renames = <<>> THEN 1 ELSE 0
            /\ Cardinality(NotMentioned) = IF renames # <<>> /\ ~said THEN 1 ELSE 0
            /\ Len(findings) <= 1
            /\ \A i \in 1..Len(findings) :
                  /\ findings[i].severity = "warn"
                  /\ findings[i].check = "rename_mismatch"

\* C13 witness: the rename old/a.go -> new/a.go with "update internal
\* helpers" gives the "not mentioned" warn naming the pair.
C13_Witness ==
    /\ pc = "done"
    /\ msg_parsed.subject = "update internal helpers"
    /\ renames = <<[from |-> "old/a.go", to |-> "new/a.go"]>>
    /\ Len(findings) = 1
    /\ findings[1].message.text = "renames not mentioned"
    /\ findings[1].message.paths = <<"old/a.go -> new/a.go">>

-----------------------------------------------------------------------------
(* Properties of get_diff_stats, checked under SpecStats. *)

\* the sum of the numbers of q
RECURSIVE Total(_)
Total(q) == IF q = <<>> THEN 0 ELSE Head(q) + Total(Tail(q))

\* the number of tab characters of the line
TabCount(line) == Cardinality({i \in 1..Len(line) : Char(line, i) = "\t"})

\* the first or the second field of a line with two tabs is "-"
DashCount(line) ==
    \/ SubSeq(line, 1, 2) = "-\t"
    \/ \E i \in 1..Len(line) :
          /\ Char(line, i) = "\t"
          /\ \A j \in 1..(i - 1) : Char(line, j) # "\t"
          /\ SubSeq(line, i + 1, i + 2) = "-\t"

\* the output get_diff_stats parses: of the parent form, or of the root form
\* when the parent form failed
StatsOutput ==
    IF gw.numstat.status = "ok" THEN gw.numstat.stdout
    ELSE IF gw.numstat_root.status = "ok" THEN gw.numstat_root.stdout
    ELSE ""

\* its lines with exactly three tab-separated fields
EntryLines == SelectSeq(splitlines(StatsOutput), LAMBDA l : TabCount(l) = 2)

\* C18: in every DiffStats get_diff_stats returns the totals are the sums of
\* added and of deleted over the entries; there is one entry for each line
\* of exactly three tab-separated fields, in order, and none for other lines;
\* an entry is binary exactly when one of its counts is "-", and a binary
\* entry has added = 0 and deleted = 0.
C18_TotalsAreSums ==
    pc = "done" =>
        LET files == diff_stats.files
        IN  /\ diff_stats.total_added = Total([i \in 1..Len(files) |-> files[i].added])
            /\ diff_stats.total_deleted = Total([i \in 1..Len(files) |-> files[i].deleted])
            /\ Len(files) = Len(EntryLines)
            /\ \A i \in 1..Len(files) :
                  /\ files[i].binary = DashCount(EntryLines[i])
                  /\ files[i].binary => files[i].added = 0 /\ files[i].deleted = 0
                  /\ EndsWith(EntryLines[i], "\t" \o files[i].path)
                  /\ files[i].added >= 0 /\ files[i].deleted >= 0

\* C18 witness: a binary file with "-" for one count only, a text file and a
\* line that is no numstat line: two entries, totals 10 and 12.
C18_Witness ==
    /\ pc = "done"
    /\ gw.numstat = Answer("ok", "-\t7\tdata.bin\n10\t12\tsrc/header.h\n1\t2\told.c\tnew.c\n")
    /\ Len(diff_stats.files) = 2
    /\ diff_stats.files[1].binary /\ diff_stats.files[1].added = 0
    /\ diff_stats.files[1].deleted = 0
    /\ diff_stats.total_added = 10 /\ diff_stats.total_deleted = 12

-----------------------------------------------------------------------------
(* Properties of the log command, checked under SpecLog. *)

\* git printed a message of the commit that is not blank
MessageReadOf(g) ==
    /\ g.message.status = "ok"
    /\ \E i \in 1..Len(g.message.stdout) : ~IsSpace(Char(g.message.stdout, i))

\* git reported two or more parents of the commit
MergeReportedOf(g) ==
    /\ g.parents.status = "ok"
    /\ Len(tokens(g.parents.stdout)) >= 2

\* the outcome the commit must get: "error", "skipped" or "audited"
OutcomeOf(g) ==
    IF ~MessageReadOf(g) THEN "error"
    ELSE IF MergeReportedOf(g) THEN "skipped"
    ELSE "audited"

\* the outcome a dict of the result list stands for
OutcomeIn(res) ==
    IF "error" \in DOMAIN res THEN "error"
    ELSE IF "skipped" \in DOMAIN res THEN "skipped"
    ELSE IF "findings" \in DOMAIN res THEN "audited"
    ELSE "none"

\* the listing succeeded and the loop over the refs has begun
Listed == pc \in {"loop", "done"} /\ gw.git_found /\ ~Falsy(git(gw.log))

\* C16: the refs are the lines of the listing in the order git printed them;
\* at every point of the loop the result list holds one outcome for each ref
\* audited so far, the i-th being the outcome of the i-th ref, whether that is
\* an AuditResult, a Skipped or a GatewayError; at the end there is one for
\* every ref.
C16_LogKeepsRefOrder ==
    Listed =>
        /\ unlines(refs) = gw.log.stdout
        /\ Len(results) = cursor
        /\ \A i \in 1..Len(results) :
              /\ results[i].ref = refs[i]
              /\ OutcomeIn(results[i]) = OutcomeOf(gw.commits[refs[i]])
        /\ pc = "done" => Len(results) = Len(refs)

\* C16 witness: three refs whose outcomes are a GatewayError, a Skipped and
\* an AuditResult, in the order of the listing.
C16_Witness ==
    /\ pc = "done"
    /\ refs = <<"9a0b1c2", "1a2b3c4", "5d6e7f8">>
    /\ Len(results) = 3
    /\ OutcomeIn(results[1]) = "error" /\ results[1].ref = "9a0b1c2"
    /\ OutcomeIn(results[2]) = "skipped" /\ results[2].ref = "1a2b3c4"
    /\ OutcomeIn(results[3]) = "audited" /\ results[3].ref = "5d6e7f8"

\* the number of results with one of the outcomes and verdicts
NumberOf(kinds) ==
    Cardinality({i \in 1..Len(results) :
        \/ OutcomeIn(results[i]) \in kinds
        \/ OutcomeIn(results[i]) = "audited" /\ results[i].verdict \in kinds})

\* the counters and the exit code of a finished log command are those of the
\* claim: skipped counts the Skipped outcomes, passed the verdicts pass,
\* warned the verdicts warn and fail and the GatewayErrors
CountersAndExitCode ==
    /\ counts.pass + counts.warn + counts.skip = Len(refs)
    /\ counts.skip = NumberOf({"skipped"})
    /\ counts.pass = NumberOf({"pass"})
    /\ counts.warn = NumberOf({"warn", "fail", "error"})
    /\ exit_code = IF counts.warn >= 1 THEN 1 ELSE 0

-----------------------------------------------------------------------------
(* Properties of the hook command, checked under SpecHook. *)

\* there is a commit-msg hook and diffmatch did not write it
ForeignHook(file) == file # None /\ ~Contains(file, "diffmatch")

\* there is a commit-msg hook that diffmatch wrote
InstalledHook(file) == file # None /\ Contains(file, "diffmatch")

\* the command found git and the git directory, so it got to the hook file
ReachedHook(g) == g.git_found /\ g.git_dir.status = "ok" /\ g.git_dir.stdout # ""

\* C19: no hook command other than install --force changes or removes a
\* commit-msg hook that does not contain "diffmatch": install leaves it and
\* returns 1, uninstall leaves it and returns 0; and install on a hook
\* diffmatch wrote leaves the file and returns 0, with --strict or --force
\* too.  The return values are those of a command that found the git
\* directory; one that did not returns 2 and leaves the file as well.
C19_ForeignHookKept ==
    [][/\ (ForeignHook(hook_file) /\ ~(args' # <<>> /\ args'[1] = "install"
                                         /\ InArgs("--force", args'))) =>
              /\ hook_file' = hook_file
              /\ (ReachedHook(gw') /\ args' # <<>> /\ args'[1] = "install") =>
                    exit_code' = 1
              /\ (ReachedHook(gw') /\ args' # <<>> /\ args'[1] = "uninstall") =>
                    exit_code' = 0
       /\ (InstalledHook(hook_file) /\ args' # <<>> /\ args'[1] = "install") =>
              /\ hook_file' = hook_file
              /\ ReachedHook(gw') => exit_code' = 0
       /\ ~ReachedHook(gw') => hook_file' = hook_file /\ exit_code' = 2
      ]_vars

\* C19 witness: after three commands the hook that diffmatch did not write
\* is still there, and the last command, an install, returned 1.
C19_Witness ==
    /\ cursor = MaxCommands
    /\ hook_file = "#!/bin/sh\nexec gitlint --msg-filename \"$1\"\n"
    /\ args = <<"install", "--strict">>
    /\ ReachedHook(gw)
    /\ exit_code = 1

=============================================================================
